---- MODULE Spec2Model ----
(***************************************************************************)
(* Model of dbus-rngbridge.py: DbusRngbridgeService, the service that      *)
(* polls a solar charge controller over HTTP/JSON and publishes its state  *)
(* on the bus.  One GLib main loop dispatches the handlers, so each        *)
(* handler (_update, _signOfLife, an external bus write) is one step.      *)
(***************************************************************************)
EXTENDS Integers, Sequences, FiniteSets, TLC

VARIABLES
    config,           \* contents of config.ini, as _getConfig reads it
    dbusservice,      \* self._dbusservice: path -> value
    lastUpdate,       \* self._lastUpdate
    updateTimer,      \* the timeout source of gobject.timeout_add(2000, self._update)
    signOfLifeTimer,  \* the timeout source of gobject.timeout_add(..., self._signOfLife)
    log,              \* the record the last handler handed to logging
    mainloop,         \* "running" once main() reached mainloop.run(), else "aborted"
    fetched,          \* what the GET of the handler dispatched last came back with
    answer,           \* what the handler dispatched last returned to its bus client
    call,             \* the bus method call the handler dispatched last served
    reported,         \* what the handler dispatched last, if _signOfLife, wrote in the log
    active,           \* timer callback -> its calls the main loop made that have not returned
    elapsed,          \* the timers whose interval has passed since they were last armed
    cycles,           \* timeouts of _update dispatched since the initial state
    requests          \* bus method calls served since the last completed cycle

vars ==
    <<config, dbusservice, lastUpdate, updateTimer, signOfLifeTimer, log, mainloop,
      fetched, answer, call, reported, active, elapsed, cycles, requests>>

\* the state of the main loop's dispatching
loop == <<active, elapsed>>

-----------------------------------------------------------------------------
(* Bounds of the model *)

\* wall-clock readings time.time() can return are 1..MaxTime
MaxTime == 2
\* bus method calls the model admits between two completed cycles
MaxRequests == 1
\* device charge-state codes range over -(MaxCode+1) .. MaxCode
MaxCode == 8
\* timeouts of _update the model follows from an initial state
MaxCycles == 2
\* the model also starts after this many failed fetches, next to the wrap of /UpdateIndex
Warmup == 254
\* calls of one timer callback the model follows at the same time
MaxActive == 2

-----------------------------------------------------------------------------
(* Python values.  A number is the exact rational n/d (d > 0, lowest      *)
(* terms); t is the Python type; s is the text of a str.                  *)

RECURSIVE GCD(_, _)
GCD(a, b) == IF b = 0 THEN a ELSE GCD(b, a % b)

Abs(x) == IF x < 0 THEN -x ELSE x

Num(t, n, d) ==
    LET g == GCD(Abs(n), d)
    IN  [t |-> t, n |-> n \div g, d |-> d \div g, s |-> <<>>]

PyInt(n) == Num("int", n, 1)
PyFloat(n, d) == Num("float", n, d)
PyBool(b) == [t |-> "bool", n |-> IF b THEN 1 ELSE 0, d |-> 1, s |-> <<>>]
PyStr(s) == [t |-> "str", n |-> 0, d |-> 1, s |-> s]
PyNone == [t |-> "NoneType", n |-> 0, d |-> 1, s |-> <<>>]
\* a key the JSON object does not hold
Missing == [t |-> "missing", n |-> 0, d |-> 1, s |-> <<>>]

IsNumber(v) == v.t \in {"int", "float", "bool"}
IsIntegral(v) == v.t \in {"int", "bool"}

\* Python's ==, on numbers: 0 == 0.0 == False
NumEq(a, b) == IsNumber(a) /\ IsNumber(b) /\ a.n * b.d = b.n * a.d

\* Python's ==
PyEq(a, b) == a = b \/ NumEq(a, b)

\* the outcome of evaluating an expression: a value, or a raised exception
Ok(v) == [exc |-> "none", val |-> v]
Raise(e) == [exc |-> e, val |-> PyNone]

RECURSIVE Repeat(_, _)
Repeat(s, k) == IF k <= 0 THEN <<>> ELSE s \o Repeat(s, k - 1)

\* a * b
Mul(a, b) ==
    IF IsNumber(a) /\ IsNumber(b)
    THEN Ok(Num(IF "float" \in {a.t, b.t} THEN "float" ELSE "int", a.n * b.n, a.d * b.d))
    ELSE IF a.t = "str" /\ IsIntegral(b) THEN Ok(PyStr(Repeat(a.s, b.n)))
    ELSE IF b.t = "str" /\ IsIntegral(a) THEN Ok(PyStr(Repeat(b.s, a.n)))
    ELSE Raise("TypeError")

\* a / 100.0
Div1000_By100(a) ==
    IF IsNumber(a) THEN Ok(PyFloat(a.n, a.d * 100)) ELSE Raise("TypeError")

\* a / 1000.0
Div1000(a) ==
    IF IsNumber(a) THEN Ok(PyFloat(a.n, a.d * 1000)) ELSE Raise("TypeError")

\* list[i]: Python indexing of a list (a TLA+ sequence), negative indices included
Index(list, i) ==
    IF ~IsIntegral(i) THEN Raise("TypeError")
    ELSE IF i.n >= Len(list) \/ i.n < -Len(list) THEN Raise("IndexError")
    ELSE Ok(PyInt(list[(i.n % Len(list)) + 1]))

-----------------------------------------------------------------------------
(* Exceptions.  Bases(e) is the set of classes an exception of class e is  *)
(* an instance of, as far as the except clauses of _update tell them apart.*)

Bases(e) ==
    CASE e = "JSONDecodeError" -> {"JSONDecodeError", "ValueError", "Exception"}
      [] e = "requests.ConnectTimeout" ->
            {"requests.ConnectTimeout", "requests.ConnectionError", "requests.Timeout", "Exception"}
      [] e = "requests.ReadTimeout" -> {"requests.ReadTimeout", "requests.Timeout", "Exception"}
      [] OTHER -> {e, "Exception"}

\* the first except clause without the built-in ConnectionError
RecoverableClasses_NoBuiltin ==
    {"ValueError", "requests.ConnectionError", "requests.Timeout"}

\* the classes of the first except clause of _update
RecoverableClasses ==
    {"ValueError", "requests.ConnectionError", "requests.Timeout", "ConnectionError"}

IsRecoverable(e) == Bases(e) \cap RecoverableClasses # {}

-----------------------------------------------------------------------------
(* What one HTTP GET can come back with.                                   *)
(*   net   : how requests.get ended ("ok", or the exception it raised)     *)
(*   ok    : Response.ok, the truth value of the response (status < 400)   *)
(*   json  : "invalid" (body is not JSON), "object", "array" or "null"     *)
(*   empty : the decoded document has no members                           *)
(*   f     : the leaves of the document that _update reads                 *)

Fields == {"p.vo", "p.cu", "c.st", "b.to", "b.ge", "b.vo", "b.cu", "o.l", "l.cu"}

NoFields == [k \in Fields |-> Missing]

NetError(e) == [net |-> e, ok |-> FALSE, json |-> "invalid", empty |-> TRUE, f |-> NoFields]
HttpReply(ok, json, empty, f) == [net |-> "ok", ok |-> ok, json |-> json, empty |-> empty, f |-> f]
Object(f) == HttpReply(TRUE, "object", FALSE, f)

\* the truth value of the decoded document
Truthy(reply) == reply.json \in {"object", "array"} /\ ~reply.empty

\* _requestData: the exception raised, "none" when it returns the decoded document
_requestData(reply) ==
    IF reply.net # "ok" THEN reply.net
    ELSE IF ~reply.ok THEN "ConnectionError"
    ELSE IF reply.json = "invalid" THEN "JSONDecodeError"
    ELSE IF ~Truthy(reply) THEN "ValueError"
    ELSE "none"

\* _getStatusUrl: the exception raised, "none" when it returns the URL
_getStatusUrl(cfg) ==
    IF cfg.AccessType = Missing THEN "KeyError"
    ELSE IF cfg.AccessType = PyStr(<<"OnPremise">>)
         THEN IF cfg.Host = Missing THEN "KeyError" ELSE "none"
         ELSE "ValueError"

\* _getRngBridgeState: the exception raised, "none" when it returns the document
_getRngBridgeState(cfg, reply) ==
    IF _getStatusUrl(cfg) # "none" THEN _getStatusUrl(cfg) ELSE _requestData(reply)

\* state[a][b], a.b being the leaf read
GetItem(state, key) ==
    IF state.json # "object" THEN Raise("TypeError")
    ELSE IF state.f[key] = Missing THEN Raise("KeyError")
    ELSE Ok(state.f[key])

-----------------------------------------------------------------------------
(* The store                                                               *)

\* the paths main() hands to the service, in the order _update writes them
Paths ==
    << "/Pv/V", "/Yield/Power", "/State", "/Yield/System", "/Yield/User",
       "/Dc/0/Voltage", "/Dc/0/Current", "/Load/State", "/Load/I" >>

Published == {Paths[k] : k \in 1..Len(Paths)}

\* the paths __init__ adds itself, none of them writeable from the bus
Metadata ==
    {"/DeviceInstance", "/ProductName", "/CustomName", "/Serial", "/Connected", "/UpdateIndex"}

AllPaths == Published \cup Metadata

\* the table with the codes of fault and bulk exchanged
state_map_Swapped == <<0, 0, 7, 3, 4, 5, 2>>

state_map == <<0, 0, 3, 7, 4, 5, 2>>

\* the right-hand side of the k-th assignment of the try block of _update
Rhs(k, state) ==
    CASE k = 1 -> GetItem(state, "p.vo")
      [] k = 2 -> LET vo == GetItem(state, "p.vo")
                      cu == GetItem(state, "p.cu")
                  IN  IF vo.exc # "none" THEN vo
                      ELSE IF cu.exc # "none" THEN cu
                      ELSE Mul(vo.val, cu.val)
      [] k = 3 -> LET st == GetItem(state, "c.st")
                  IN  IF st.exc # "none" THEN st ELSE Index(state_map, st.val)
      [] k = 4 -> LET to == GetItem(state, "b.to")
                  IN  IF to.exc # "none" THEN to ELSE Div1000(to.val)
      [] k = 5 -> LET ge == GetItem(state, "b.ge")
                  IN  IF ge.exc # "none" THEN ge ELSE Div1000(ge.val)
      [] k = 6 -> GetItem(state, "b.vo")
      [] k = 7 -> GetItem(state, "b.cu")
      [] k = 8 -> GetItem(state, "o.l")
      [] k = 9 -> GetItem(state, "l.cu")

\* the element of a one-element set: names an intermediate result once
The(S) == CHOOSE x \in S : TRUE

\* the assignments k .. 9 of the try block, in order, up to the first that raises
RECURSIVE Publish(_, _, _)
Publish(k, store, state) ==
    IF k > Len(Paths) THEN [store |-> store, exc |-> "none"]
    ELSE LET r == Rhs(k, state)
         IN  IF r.exc # "none" THEN [store |-> store, exc |-> r.exc]
             ELSE Publish(k + 1, [store EXCEPT ![Paths[k]] = r.val], state)

\* the increment without the wrap
IncrementUpdateIndex_NoWrap(store) ==
    [store EXCEPT !["/UpdateIndex"] = PyInt(@.n + 1)]

\* self._dbusservice["/UpdateIndex"] = (self._dbusservice["/UpdateIndex"] + 1) % 256
IncrementUpdateIndex(store) ==
    [store EXCEPT !["/UpdateIndex"] = PyInt((@.n + 1) % 256)]

\* the values the first except clause of _update writes
FaultValue(path) == IF path = "/Load/State" THEN PyBool(FALSE) ELSE PyInt(0)

\* the first except clause without its write of /Pv/V
SetDefaults_NotPv(store) ==
    [p \in DOMAIN store |->
        IF p \in Published \ {"/Pv/V"} THEN FaultValue(p) ELSE store[p]]

\* the first except clause writing its values to every path but /UpdateIndex
SetDefaults_EveryPath(store) ==
    [p \in DOMAIN store |-> IF p # "/UpdateIndex" THEN FaultValue(p) ELSE store[p]]

\* the first except clause telling the bus that the device is gone
SetDefaults_Disconnects(store) ==
    [p \in DOMAIN store |->
        IF p \in Published THEN FaultValue(p)
        ELSE IF p = "/Connected" THEN PyInt(0) ELSE store[p]]

SetDefaults(store) ==
    [p \in DOMAIN store |-> IF p \in Published THEN FaultValue(p) ELSE store[p]]

\* a call of logging.<level>(msg, exc_info=exc) made by the handler named by
LogRecord(level, by, msg, exc) == [level |-> level, by |-> by, msg |-> msg, exc |-> exc]

\* the try block with self._lastUpdate = time.time() as its first statement
TryBlock_StampsFirst(store, last, cfg, reply, now) ==
    LET got == _getRngBridgeState(cfg, reply)
    IN  IF got # "none" THEN [store |-> store, last |-> now, exc |-> got]
        ELSE The({ IF pub.exc # "none"
                   THEN [store |-> pub.store, last |-> now, exc |-> pub.exc]
                   ELSE [store |-> IncrementUpdateIndex(pub.store), last |-> now,
                         exc |-> "none"] :
                   pub \in {Publish(1, store, reply)} })

\* the try block of _update
TryBlock(store, last, cfg, reply, now) ==
    LET got == _getRngBridgeState(cfg, reply)
    IN  IF got # "none" THEN [store |-> store, last |-> last, exc |-> got]
        ELSE The({ IF pub.exc # "none"
                   THEN [store |-> pub.store, last |-> last, exc |-> pub.exc]
                   ELSE [store |-> IncrementUpdateIndex(pub.store), last |-> now,
                         exc |-> "none"] :
                   pub \in {Publish(1, store, reply)} })

\* _update with a second except clause that returns False, which removes the timeout
_update_StopsOnError(store, last, cfg, reply, now) ==
    The({ IF t.exc = "none"
          THEN [store |-> t.store, last |-> t.last, ret |-> TRUE, exc |-> "none",
                log |-> LogRecord("debug", "_update", "---", "none")]
          ELSE IF IsRecoverable(t.exc)
          THEN [store |-> IncrementUpdateIndex(SetDefaults(t.store)), last |-> t.last,
                ret |-> TRUE, exc |-> t.exc,
                log |-> LogRecord("critical", "_update",
                                  "Error getting data from RNGBridge", t.exc)]
          ELSE [store |-> t.store, last |-> t.last, ret |-> FALSE, exc |-> t.exc,
                log |-> LogRecord("critical", "_update", "Error at _update", t.exc)] :
          t \in {TryBlock(store, last, cfg, reply, now)} })

\* _update: the store, _lastUpdate and log record it leaves, and what it returns
_update(store, last, cfg, reply, now) ==
    The({ IF t.exc = "none"
          THEN [store |-> t.store, last |-> t.last, ret |-> TRUE, exc |-> "none",
                log |-> LogRecord("debug", "_update", "---", "none")]
          ELSE IF IsRecoverable(t.exc)
          THEN [store |-> IncrementUpdateIndex(SetDefaults(t.store)), last |-> t.last,
                ret |-> TRUE, exc |-> t.exc,
                log |-> LogRecord("critical", "_update",
                                  "Error getting data from RNGBridge", t.exc)]
          ELSE [store |-> t.store, last |-> t.last, ret |-> TRUE, exc |-> t.exc,
                log |-> LogRecord("critical", "_update", "Error at _update", t.exc)] :
          t \in {TryBlock(store, last, cfg, reply, now)} })

\* self._dbusservice[path] = val, as one write the bus can observe
Write(path, val) == [path |-> path, val |-> val]

\* the writes of the assignments k .. 9 of the try block, up to the first that raises
RECURSIVE TryWrites(_, _)
TryWrites(k, state) ==
    IF k > Len(Paths) THEN <<>>
    ELSE The({ IF r.exc # "none" THEN <<>>
               ELSE <<Write(Paths[k], r.val)>> \o TryWrites(k + 1, state) :
               r \in {Rhs(k, state)} })

\* the store after the writes w, made in order
RECURSIVE ApplyWrites(_, _)
ApplyWrites(store, w) ==
    IF w = <<>> THEN store
    ELSE ApplyWrites([store EXCEPT ![Head(w).path] = Head(w).val], Tail(w))

\* the write of the increment of /UpdateIndex, made on store
IndexWrite(store) == Write("/UpdateIndex", IncrementUpdateIndex(store)["/UpdateIndex"])

\* the paths in the order the first except clause of _update assigns them
ExceptOrder ==
    << "/Pv/V", "/Yield/Power", "/Yield/System", "/Yield/User", "/State",
       "/Dc/0/Voltage", "/Dc/0/Current", "/Load/State", "/Load/I" >>

\* the first except clause incrementing /UpdateIndex before it writes the values
ExceptWrites_IndexFirst(store) ==
    <<IndexWrite(store)>>
    \o [k \in 1..Len(ExceptOrder) |-> Write(ExceptOrder[k], FaultValue(ExceptOrder[k]))]

\* the writes of the first except clause of _update, in order
ExceptWrites(store) ==
    [k \in 1..Len(ExceptOrder) |-> Write(ExceptOrder[k], FaultValue(ExceptOrder[k]))]
    \o <<IndexWrite(store)>>

\* the writes to the store one call of _update makes, in order
Writes(store, cfg, reply) ==
    The({ IF got # "none"
          THEN IF IsRecoverable(got) THEN ExceptWrites(store) ELSE <<>>
          ELSE The({ IF Len(w) = Len(Paths) THEN w \o <<IndexWrite(store)>>
                     ELSE IF IsRecoverable(Rhs(Len(w) + 1, reply).exc)
                     THEN w \o ExceptWrites(store)
                     ELSE w :
                     w \in {TryWrites(1, reply)} }) :
          got \in {_getRngBridgeState(cfg, reply)} })

-----------------------------------------------------------------------------
(* Startup                                                                 *)

DigitValue(c) ==
    CASE c = "0" -> 0 [] c = "1" -> 1 [] c = "2" -> 2 [] c = "3" -> 3 [] c = "4" -> 4
      [] c = "5" -> 5 [] c = "6" -> 6 [] c = "7" -> 7 [] c = "8" -> 8 [] c = "9" -> 9
      [] OTHER -> -1

RECURSIVE ParseDigits(_, _)
ParseDigits(s, acc) ==
    IF s = <<>> THEN acc ELSE ParseDigits(Tail(s), 10 * acc + DigitValue(Head(s)))

\* int(v) of a config value: a str of decimal digits, or a number
int(v) ==
    IF IsNumber(v) THEN Ok(PyInt(v.n \div v.d))
    ELSE IF v.t # "str" THEN Raise("TypeError")
    ELSE IF v.s = <<>> \/ \E i \in 1..Len(v.s) : DigitValue(v.s[i]) < 0 THEN Raise("ValueError")
    ELSE Ok(PyInt(ParseDigits(v.s, 0)))

\* config[section][key]
ConfigGet(cfg, key) == IF cfg[key] = Missing THEN Raise("KeyError") ELSE Ok(cfg[key])

\* _getSignOfLifeInterval
_getSignOfLifeInterval(cfg) ==
    IF ConfigGet(cfg, "SignOfLifeLog").exc # "none" THEN ConfigGet(cfg, "SignOfLifeLog")
    ELSE IF cfg.SignOfLifeLog.s = <<>> THEN int(PyInt(0))
    ELSE int(cfg.SignOfLifeLog)

\* the initial value main() gives every published path
Initial(path) == PyInt(0)

\* the store __init__ builds
InitialStore(cfg) ==
    [p \in AllPaths |->
        CASE p = "/DeviceInstance" -> int(cfg.DeviceInstance).val
          [] p = "/ProductName" -> PyStr(<<"RNGBridge">>)
          [] p = "/CustomName" -> cfg.CustomName
          [] p = "/Serial" -> cfg.Serial
          [] p = "/Connected" -> PyInt(1)
          [] p = "/UpdateIndex" -> PyInt(0)
          [] OTHER -> Initial(p)]

\* the first exception __init__ raises, "none" if it returns
InitRaises(cfg) ==
    IF ConfigGet(cfg, "DeviceInstance").exc # "none" THEN "KeyError"
    ELSE IF int(cfg.DeviceInstance).exc # "none" THEN int(cfg.DeviceInstance).exc
    ELSE IF ConfigGet(cfg, "CustomName").exc # "none" THEN "KeyError"
    ELSE IF ConfigGet(cfg, "Serial").exc # "none" THEN "KeyError"
    ELSE _getSignOfLifeInterval(cfg).exc

-----------------------------------------------------------------------------
(* Inputs                                                                  *)

BaseConfig ==
    [ DeviceInstance |-> PyStr(<<"4", "0">>),
      CustomName     |-> PyStr(<<"RNGBridge">>),
      Serial         |-> PyStr(<<"0000">>),
      SignOfLifeLog  |-> PyStr(<<"5">>),
      AccessType     |-> PyStr(<<"OnPremise">>),
      Host           |-> PyStr(<<"192.168.2.13">>) ]

\* the config.ini files the service is started with
Configs ==
    { BaseConfig,
      [BaseConfig EXCEPT !.SignOfLifeLog = PyStr(<<>>), !.AccessType = PyStr(<<"Cloud">>)] }
    \cup { [BaseConfig EXCEPT ![k] = Missing] : k \in DOMAIN BaseConfig }

\* the config.ini of the service that is followed from Warmup refused fetches on
WarmConfig == [BaseConfig EXCEPT !.SignOfLifeLog = PyStr(<<"0">>)]

\* Scenario A of the documentation
SnapshotA ==
    [k \in Fields |->
        CASE k = "p.vo" -> PyFloat(40, 1)
          [] k = "p.cu" -> PyFloat(5, 1)
          [] k = "c.st" -> PyInt(3)
          [] k = "b.to" -> PyInt(123000)
          [] k = "b.ge" -> PyInt(4500)
          [] k = "b.vo" -> PyFloat(26, 1)
          [] k = "b.cu" -> PyFloat(48, 10)
          [] k = "o.l"  -> PyBool(TRUE)
          [] k = "l.cu" -> PyFloat(12, 10)]

SnapshotB ==
    [k \in Fields |->
        CASE k = "p.vo" -> PyFloat(1255, 100)
          [] k = "p.cu" -> PyFloat(5, 2)
          [] k = "c.st" -> PyInt(5)
          [] k = "b.to" -> PyInt(12345)
          [] k = "b.ge" -> PyInt(7)
          [] k = "b.vo" -> PyFloat(131, 10)
          [] k = "b.cu" -> PyFloat(-3, 2)
          [] k = "o.l"  -> PyBool(FALSE)
          [] k = "l.cu" -> PyInt(0)]

Codes == -(MaxCode + 1) .. MaxCode

Replies ==
    { NetError(e) : e \in {"requests.ConnectionError", "requests.ConnectTimeout",
                           "requests.ReadTimeout", "requests.TooManyRedirects"} }
    \cup { HttpReply(FALSE, "object", FALSE, SnapshotA),    \* an HTTP error status
           HttpReply(TRUE, "invalid", TRUE, NoFields),      \* a body that is not JSON
           HttpReply(TRUE, "object", TRUE, NoFields),       \* {}
           HttpReply(TRUE, "null", TRUE, NoFields),         \* null
           HttpReply(TRUE, "array", FALSE, NoFields),       \* [1]
           Object(NoFields),                                \* {"x": 1}
           Object(SnapshotA),
           Object(SnapshotB) }
    \cup { Object([SnapshotA EXCEPT !["c.st"] = PyInt(c)]) : c \in Codes }
    \cup { Object([SnapshotA EXCEPT ![k] = Missing]) : k \in Fields }
    \cup { Object([SnapshotA EXCEPT !["p.vo"] = PyStr(<<"40">>)]),
           Object([SnapshotA EXCEPT !["p.vo"] = PyStr(<<"40">>), !["p.cu"] = PyInt(2)]),
           Object([SnapshotA EXCEPT !["c.st"] = PyFloat(3, 1)]),
           Object([SnapshotA EXCEPT !["b.ge"] = PyNone]) }

\* what an external bus client may send
ExternalValues == {PyInt(99), PyStr(<<"on">>)}

Times == 1 .. MaxTime

-----------------------------------------------------------------------------
(* Text formatting: the textformat callbacks of main()                     *)

Pow10(k) == IF k = 0 THEN 1 ELSE IF k = 1 THEN 10 ELSE 100

\* n/d rounded to an integer, ties to even
RoundHalfEven(n, d) ==
    LET q == n \div d
        r == n % d
    IN  IF 2 * r < d THEN q
        ELSE IF 2 * r > d THEN q + 1
        ELSE IF q % 2 = 0 THEN q ELSE q + 1

\* round(v, ndigits)
round(v, ndigits) ==
    IF IsIntegral(v) THEN Ok(PyInt(v.n))
    ELSE IF v.t = "float"
    THEN Ok(PyFloat(RoundHalfEven(v.n * Pow10(ndigits), v.d), Pow10(ndigits)))
    ELSE Raise("TypeError")

\* a text: str(val) followed by unit
Text(r, unit) == [exc |-> r.exc, val |-> r.val, unit |-> unit]

_kwh(p, v) == Text(round(v, 2), " KWh")
_a(p, v) == Text(round(v, 1), " A")
_w(p, v) == Text(round(v, 1), " W")
_v(p, v) == Text(round(v, 1), " V")
_s(p, v) == Text(Ok(v), "")

\* the "textformat" main() gives the path, applied
textformat(path, v) ==
    CASE path = "/Pv/V" -> _v(path, v)
      [] path = "/Yield/Power" -> _w(path, v)
      [] path \in {"/Yield/System", "/Yield/User"} -> _kwh(path, v)
      [] path = "/State" -> _s(path, v)
      [] path \in {"/Dc/0/Voltage", "/Load/State"} -> _v(path, v)
      [] path \in {"/Dc/0/Current", "/Load/I"} -> _a(path, v)

NoAnswer == Text(Ok(PyNone), "")

\* the callbacks __init__ hands to gobject.timeout_add
Callbacks == {"_update", "_signOfLife"}

\* a method call of a bus client on the item at path
BusCall(method, path, value) == [method |-> method, path |-> path, value |-> value]
NoCall == BusCall("none", "/", PyNone)

\* the two values _signOfLife writes in the log
Report(last, power) == [last |-> last, power |-> power]
NoReport == Report(-1, PyNone)
NoFetch == NetError("not fetched")

-----------------------------------------------------------------------------
(* The state machine                                                       *)

\* the service as main() leaves it when it enters the main loop
Constructed(cfg) ==
    [store |-> InitialStore(cfg), last |-> 0,
     log |-> LogRecord("info", "main", "Connected to dbus", "none")]

\* the service n >= 1 timeouts of _update later, the fetch refused every time: each
\* of them wrote the values of the first except clause and incremented /UpdateIndex
Refused(n, cfg) ==
    [store |-> [SetDefaults(InitialStore(cfg)) EXCEPT !["/UpdateIndex"] = PyInt(n % 256)],
     last |-> 0,
     log |-> LogRecord("critical", "_update", "Error getting data from RNGBridge",
                       "requests.ConnectionError")]

\* the service right after startup, or Warmup refused fetches later
Init ==
    /\ \E n \in {0, Warmup} :
          /\ config \in IF n = 0 THEN Configs ELSE {WarmConfig}
          /\ mainloop = IF InitRaises(config) = "none" THEN "running" ELSE "aborted"
          /\ IF mainloop = "running"
             THEN LET r == IF n = 0 THEN Constructed(config) ELSE Refused(n, config)
                  IN  dbusservice = r.store /\ lastUpdate = r.last /\ log = r.log
             ELSE /\ dbusservice = [p \in AllPaths |-> PyNone]
                  /\ lastUpdate = 0
                  /\ log = LogRecord("critical", "main", "Error at main", InitRaises(config))
    /\ cycles = 0
    /\ updateTimer = [interval |-> 2000, scheduled |-> TRUE]
    /\ signOfLifeTimer =
          [interval |-> IF mainloop = "running"
                        THEN _getSignOfLifeInterval(config).val.n * 60 * 1000 ELSE 0,
           scheduled |-> mainloop = "running"]
    /\ fetched = IF lastUpdate = 0 /\ log.by = "_update"
                 THEN NetError("requests.ConnectionError") ELSE NoFetch
    /\ answer = NoAnswer
    /\ call = NoCall
    /\ reported = NoReport
    /\ active = [cb \in Callbacks |-> 0]
    /\ elapsed = {}
    /\ requests = 0

\* a cycle completed: the try block ended, or the first except clause handled it
Completed(exc) == exc = "none" \/ IsRecoverable(exc)

\* one call of _update by the main loop, from its entry to its return, the GET
\* coming back with one of replies
Update(replies) ==
    /\ mainloop = "running"
    /\ updateTimer.scheduled
    /\ cycles < MaxCycles
    /\ cycles' = cycles + 1
    /\ \E reply \in replies, now \in Times :
          /\ fetched' = IF _getStatusUrl(config) = "none" THEN reply ELSE NoFetch
          /\ \E r \in {_update(dbusservice, lastUpdate, config, reply, now)} :
              /\ dbusservice' = r.store
              /\ lastUpdate' = r.last
              /\ log' = r.log
              /\ updateTimer' = [updateTimer EXCEPT !.scheduled = r.ret]
              /\ requests' = IF Completed(r.exc) THEN 0 ELSE requests
    /\ answer' = NoAnswer
    /\ call' = NoCall
    /\ reported' = NoReport
    /\ UNCHANGED <<config, signOfLifeTimer, mainloop>>

\* the main loop dispatches the timeout of _update
UpdateTimeout == Update(Replies) /\ UNCHANGED loop

\* _signOfLife without its return statement: it returns None
_signOfLife_ReturnsNone(store, last) ==
    [store |-> store, last |-> last,
     said |-> Report(last, store["/Yield/Power"]),
     log |-> LogRecord("info", "_signOfLife", "--- End: sign of life ---", "none"),
     ret |-> FALSE]

\* _signOfLife: the store and _lastUpdate it leaves, what it reports, the log record
\* it leaves last and what it returns
_signOfLife(store, last) ==
    [store |-> store, last |-> last,
     said |-> Report(last, store["/Yield/Power"]),
     log |-> LogRecord("info", "_signOfLife", "--- End: sign of life ---", "none"),
     ret |-> TRUE]

\* one call of _signOfLife by the main loop, from its entry to its return
SignOfLife ==
    /\ mainloop = "running"
    /\ signOfLifeTimer.scheduled
    /\ dbusservice' = _signOfLife(dbusservice, lastUpdate).store
    /\ lastUpdate' = _signOfLife(dbusservice, lastUpdate).last
    /\ log' = _signOfLife(dbusservice, lastUpdate).log
    /\ reported' = _signOfLife(dbusservice, lastUpdate).said
    /\ signOfLifeTimer' =
          [signOfLifeTimer EXCEPT !.scheduled = _signOfLife(dbusservice, lastUpdate).ret]
    /\ fetched' = NoFetch
    /\ answer' = NoAnswer
    /\ call' = NoCall
    /\ UNCHANGED <<config, updateTimer, mainloop, cycles, requests>>

\* the main loop dispatches the timeout of _signOfLife
SignOfLifeTimeout == SignOfLife /\ UNCHANGED loop

\* _handlechangedvalue that accepts numbers alone
_handlechangedvalue_TypeChecked(path, value) ==
    [log |-> LogRecord("debug", "_handlechangedvalue", "someone else updated", "none"),
     ret |-> IsNumber(value)]

\* _handlechangedvalue
_handlechangedvalue(path, value) ==
    [log |-> LogRecord("debug", "_handlechangedvalue", "someone else updated", "none"),
     ret |-> TRUE]

\* writeable=True is given to the paths of main() alone
Writeable(path) == path \in Published

\* a bus client asks for path := value: the store, the log record and the reply
SetValueResult(store, lg, path, value) ==
    IF ~Writeable(path) THEN [store |-> store, log |-> lg, ret |-> 1]
    ELSE IF PyEq(value, store[path]) THEN [store |-> store, log |-> lg, ret |-> 0]
    ELSE IF _handlechangedvalue(path, value).ret
    THEN [store |-> [store EXCEPT ![path] = value],
          log |-> _handlechangedvalue(path, value).log, ret |-> 0]
    ELSE [store |-> store, log |-> _handlechangedvalue(path, value).log, ret |-> 2]

\* the main loop dispatches a SetValue call of a bus client
SetValue ==
    /\ mainloop = "running"
    /\ requests < MaxRequests
    /\ \E path \in AllPaths, value \in ExternalValues :
          LET r == SetValueResult(dbusservice, log, path, value)
          IN  /\ call' = BusCall("SetValue", path, value)
              /\ dbusservice' = r.store
              /\ log' = r.log
              /\ answer' = Text(Ok(PyInt(r.ret)), "")
    /\ requests' = requests + 1
    /\ fetched' = NoFetch
    /\ reported' = NoReport
    /\ UNCHANGED <<config, lastUpdate, updateTimer, signOfLifeTimer, mainloop, cycles>>
    /\ UNCHANGED loop

\* the main loop dispatches a GetText call of a bus client
GetText ==
    /\ mainloop = "running"
    /\ requests < MaxRequests
    /\ \E path \in Published :
          /\ call' = BusCall("GetText", path, PyNone)
          /\ answer' = IF dbusservice[path] = PyNone THEN Text(Ok(PyStr(<<"---">>)), "")
                       ELSE textformat(path, dbusservice[path])
    /\ requests' = requests + 1
    /\ fetched' = NoFetch
    /\ reported' = NoReport
    /\ UNCHANGED <<config, dbusservice, lastUpdate, updateTimer, signOfLifeTimer, log,
                   mainloop, cycles>>
    /\ UNCHANGED loop

Next == UpdateTimeout \/ SignOfLifeTimeout \/ SetValue \/ GetText

Spec == Init /\ [][Next]_vars

\* the main loop dispatches a timeout that is due: GLib never starves a source
FairSpec == Spec /\ WF_vars(UpdateTimeout)

-----------------------------------------------------------------------------
(* The main loop in steps: a timer callback is entered in one step and     *)
(* returns in a later one, and the intervals of the timers pass meanwhile. *)

\* the timeout source of a callback
Timer(cb) == IF cb = "_update" THEN updateTimer ELSE signOfLifeTimer

\* _update handing its GET to another thread and returning to the main loop
Blocks_AsyncFetch(cb) == cb # "_update"

\* the callback keeps the thread of the main loop from its entry to its return:
\* _update waits in requests.get, _signOfLife only logs; neither starts a thread
\* nor iterates the main loop
Blocks(cb) == TRUE

\* the thread of mainloop.run() is in the loop, not inside a callback that blocks it
LoopFree == \A cb \in Callbacks : active[cb] > 0 => ~Blocks(cb)

\* what the GET of a cycle comes back with, one reply for each outcome of _update
LoopReplies ==
    {NetError("requests.ConnectionError"), Object(SnapshotA), Object(NoFields)}

\* the interval of a timer passes, whether or not a callback is running
Elapse ==
    /\ mainloop = "running"
    /\ \E cb \in Callbacks \ elapsed :
          /\ Timer(cb).scheduled
          /\ elapsed' = elapsed \cup {cb}
    /\ UNCHANGED <<config, dbusservice, lastUpdate, updateTimer, signOfLifeTimer, log,
                   mainloop, fetched, answer, call, reported, active, cycles, requests>>

\* the main loop, free, finds the timeout of cb due and calls cb
Dispatch(cb) ==
    /\ mainloop = "running"
    /\ Timer(cb).scheduled
    /\ cb \in elapsed
    /\ LoopFree
    /\ active[cb] < MaxActive
    /\ cb = "_update" => cycles + active[cb] < MaxCycles
    /\ active' = [active EXCEPT ![cb] = @ + 1]
    /\ elapsed' = elapsed \ {cb}
    /\ UNCHANGED <<config, dbusservice, lastUpdate, updateTimer, signOfLifeTimer, log,
                   mainloop, fetched, answer, call, reported, cycles, requests>>

\* a call of _update returns: its effects, and its timeout is armed again from now
UpdateReturns ==
    /\ active["_update"] > 0
    /\ Update(LoopReplies)
    /\ active' = [active EXCEPT !["_update"] = @ - 1]
    /\ elapsed' = elapsed \ {"_update"}

\* a call of _signOfLife returns: its effects, and its timeout is armed again from now
SignOfLifeReturns ==
    /\ active["_signOfLife"] > 0
    /\ SignOfLife
    /\ active' = [active EXCEPT !["_signOfLife"] = @ - 1]
    /\ elapsed' = elapsed \ {"_signOfLife"}

\* the main loop, free, serves a method call of a bus client
Served == LoopFree /\ (SetValue \/ GetText)

LoopNext ==
    \/ Elapse
    \/ \E cb \in Callbacks : Dispatch(cb)
    \/ UpdateReturns
    \/ SignOfLifeReturns
    \/ Served

LoopSpec == Init /\ [][LoopNext]_vars

-----------------------------------------------------------------------------
(* Vocabulary of the properties                                            *)

UpdateIndex == dbusservice["/UpdateIndex"]

\* this step is one timeout of _update
Cycle == cycles' = cycles + 1

\* what the log record of a cycle says of its outcome
Succeeded(l) == l.by = "_update" /\ l.level = "debug"
RecoverableFault(l) ==
    l.by = "_update" /\ l.level = "critical" /\ l.msg = "Error getting data from RNGBridge"
UnhandledFault(l) ==
    l.by = "_update" /\ l.level = "critical" /\ l.msg = "Error at _update"

\* the nine published paths hold their zero/off defaults in store
AllDefaults(store) ==
    /\ \A p \in Published \ {"/Load/State"} : store[p] = PyInt(0)
    /\ store["/Load/State"] = PyBool(FALSE)

\* the fetch failed in the network, by a falsy response, or by a body that is not JSON
FetchFailed(r) ==
    \/ r.net \in {"requests.ConnectionError", "requests.ConnectTimeout", "requests.ReadTimeout"}
    \/ r.net = "ok" /\ ~r.ok
    \/ r.net = "ok" /\ r.ok /\ r.json = "invalid"

\* v = a * b and v = a / 1000, as rationals
IsProduct(v, a, b) == IsNumber(v) /\ v.n * a.d * b.d = a.n * b.n * v.d
IsThousandth(v, a) == IsNumber(v) /\ v.n * 1000 * a.d = a.n * v.d

\* the document is a snapshot: an object with every field, each of its JSON type
IsSnapshot(r) ==
    /\ r.net = "ok" /\ r.ok /\ r.json = "object" /\ ~r.empty
    /\ \A k \in Fields \ {"c.st", "o.l"} : r.f[k].t \in {"int", "float"}
    /\ r.f["c.st"].t = "int"
    /\ r.f["o.l"].t = "bool"

\* store holds the projection of the snapshot f, /State aside
IsProjection(store, f) ==
    /\ store["/Pv/V"] = f["p.vo"]
    /\ IsProduct(store["/Yield/Power"], f["p.vo"], f["p.cu"])
    /\ IsThousandth(store["/Yield/System"], f["b.to"])
    /\ IsThousandth(store["/Yield/User"], f["b.ge"])
    /\ store["/Dc/0/Voltage"] = f["b.vo"]
    /\ store["/Dc/0/Current"] = f["b.cu"]
    /\ store["/Load/State"] = f["o.l"]
    /\ store["/Load/I"] = f["l.cu"]

-----------------------------------------------------------------------------
(* Properties                                                              *)

\* C1: a cycle that ends as a success or as a recoverable fault leaves /UpdateIndex
\* at (its value before + 1) mod 256; a cycle that ends in an unhandled fault
\* leaves /UpdateIndex as it was.
C1_UpdateIndex ==
    [][Cycle =>
        IF UnhandledFault(log') THEN UpdateIndex' = UpdateIndex
        ELSE /\ Succeeded(log') \/ RecoverableFault(log')
             /\ UpdateIndex' = PyInt((UpdateIndex.n + 1) % 256)
             /\ UpdateIndex'.n \in 0..255]_vars

\* /UpdateIndex wrapped from 255 to 0 in the second cycle after Warmup refused ones
C1_Witness ==
    /\ config = WarmConfig /\ cycles = 2
    /\ UpdateIndex = PyInt(0)
    /\ Succeeded(log)

\* C2: after a cycle whose fetch failed in the network, by a falsy response or by
\* a body that is not JSON, all nine published paths hold their defaults.
C2_FaultDefaults ==
    [][Cycle /\ FetchFailed(fetched') => AllDefaults(dbusservice')]_vars

\* a body that is not JSON, after a success had published the device's values
C2_Witness ==
    /\ cycles = 2 /\ lastUpdate # 0
    /\ fetched.net = "ok" /\ fetched.ok /\ fetched.json = "invalid"
    /\ AllDefaults(dbusservice)

\* C3: a cycle that ends in an unhandled fault leaves the nine published paths
\* and /UpdateIndex as they were.
C3_UnhandledMutatesNothing ==
    [][Cycle /\ UnhandledFault(log') => dbusservice' = dbusservice]_vars

\* the published codes of the device codes 0..6, as the documentation lists them
C4_Table == <<0, 0, 3, 7, 4, 5, 2>>

\* C4: a cycle that fetches a snapshot with charge-state code c in 0..6 succeeds
\* and publishes /State = [0,0,3,7,4,5,2][c].
C4_StateMapping ==
    [][\A c \in 0..6 :
          Cycle /\ IsSnapshot(fetched') /\ fetched'.f["c.st"] = PyInt(c)
          => /\ Succeeded(log')
             /\ dbusservice'["/State"] = PyInt(C4_Table[c + 1])]_vars

\* device code 6 was fetched and published as 2
C4_Witness ==
    /\ Succeeded(log) /\ IsSnapshot(fetched)
    /\ fetched.f["c.st"] = PyInt(6)
    /\ dbusservice["/State"] = PyInt(2)

\* C5: a cycle that fetches a snapshot with a charge-state code outside 0..6 fails
\* with an error and publishes no /State.
C5_UnknownCodeFails ==
    [][Cycle /\ IsSnapshot(fetched') /\ fetched'.f["c.st"].n \notin 0..6
         => /\ ~Succeeded(log')
            /\ dbusservice'["/State"] = dbusservice["/State"]]_vars

\* the document is valid JSON of an unexpected shape
IsMalformed(r) ==
    /\ r.net = "ok" /\ r.ok /\ r.json \in {"object", "array"} /\ ~r.empty
    /\ \/ r.json # "object"
       \/ \E k \in Fields \ {"o.l"} : ~IsNumber(r.f[k])
       \/ r.f["o.l"].t # "bool"

\* C6: a cycle that fetches valid JSON of an unexpected shape ends as a recoverable
\* fault: all nine published paths hold their defaults and /UpdateIndex went up by one.
C6_MalformedIsRecoverable ==
    [][Cycle /\ IsMalformed(fetched')
         => /\ AllDefaults(dbusservice')
            /\ UpdateIndex' = PyInt((UpdateIndex.n + 1) % 256)]_vars

\* C7: after a successful cycle the store holds the projection of the snapshot
\* fetched (the product and the thousandths exact, not rounded), whatever it held
\* before; and rendering a path as text leaves the store as it was.
C7_Projection ==
    [][/\ Cycle /\ IsSnapshot(fetched') /\ Succeeded(log')
            => IsProjection(dbusservice', fetched'.f)
       /\ GetText => dbusservice' = dbusservice]_vars

\* snapshot B was published in the second cycle: 12.55 V * 2.5 A = 31.375 W, 7 Wh = 0.007 KWh
C7_Witness ==
    /\ cycles = 2 /\ Succeeded(log) /\ fetched = Object(SnapshotB)
    /\ dbusservice["/Yield/Power"] = PyFloat(31375, 1000)
    /\ dbusservice["/Yield/User"] = PyFloat(7, 1000)

\* C8 as claimed: a published path that holds a value a bus client wrote holds,
\* after the next cycle, the value derived from the device or the fault default.
C8_NextCycleOverwrites ==
    [][Cycle => \A p \in Published :
                  dbusservice[p] \in ExternalValues => dbusservice'[p] \notin ExternalValues]_vars

\* C8 as amended: a published path that holds a value a bus client wrote holds,
\* after the next cycle that ends as a success or as a recoverable fault, the value
\* derived from the device, respectively the fault default; no device value is one
\* of ExternalValues.
C8_CompletedCycleOverwrites ==
    [][Cycle /\ (\E p \in Published : dbusservice[p] \in ExternalValues)
         => /\ RecoverableFault(log') => AllDefaults(dbusservice')
            /\ Succeeded(log') =>
                  \A p \in Published : dbusservice'[p] \notin ExternalValues
            /\ Succeeded(log') /\ IsSnapshot(fetched')
                  => IsProjection(dbusservice', fetched'.f)]_vars

\* a bus client has just written 99 to /Pv/V between the first and the second cycle
C8_Witness ==
    /\ cycles = 1 /\ cycles < MaxCycles /\ updateTimer.scheduled
    /\ dbusservice["/Pv/V"] = PyInt(99)
    /\ log.by = "_handlechangedvalue"
    /\ answer = Text(Ok(PyInt(0)), "")

\* C9: whatever the outcomes of the cycles, the timer of _update stays scheduled, so
\* under fair scheduling every cycle the model admits is eventually run.
C9_LoopNeverStops ==
    [](mainloop = "running" => updateTimer.scheduled /\ <>(cycles = MaxCycles))

\* two cycles ran and both ended in a fault, the first one unhandled
C9_Witness ==
    /\ cycles = MaxCycles /\ updateTimer.scheduled
    /\ RecoverableFault(log) /\ lastUpdate = 0 /\ requests = 0
    /\ config = BaseConfig /\ UpdateIndex = PyInt(1)

\* C10: with a sign-of-life interval of 0 the heartbeat never fires.
C10_ZeroDisablesHeartbeat ==
    signOfLifeTimer.interval = 0 => log.by # "_signOfLife"

\* C11: when a configuration key (device instance, custom name, serial, sign-of-life
\* interval, access type or host) is missing, startup is aborted: the main loop is
\* never entered and no cycle runs.
C11_MissingKeyAborts ==
    (\E k \in DOMAIN config : config[k] = Missing) => mainloop = "aborted" /\ cycles = 0

\* C12: a write a bus client requests to one of the nine published paths is accepted
\* whatever the value: the call returns 0 and the path holds the value, the other
\* paths what they held, the change logged at debug level; and the store keeps what
\* it holds through every step that is neither a cycle nor a write (a heartbeat, a
\* text request).
C12_WriteAccepted ==
    [][/\ call'.method = "SetValue" /\ call'.path \in Published
            => /\ answer' = Text(Ok(PyInt(0)), "")
               /\ dbusservice' = [dbusservice EXCEPT ![call'.path] = call'.value]
               /\ dbusservice' # dbusservice
                     => log'.by = "_handlechangedvalue" /\ log'.level = "debug"
       /\ ~Cycle /\ call'.method # "SetValue" => dbusservice' = dbusservice]_vars

\* a bus client wrote the text "on" to the on/off path, which held a number
C12_Witness ==
    /\ call = BusCall("SetValue", "/Load/State", PyStr(<<"on">>))
    /\ dbusservice["/Load/State"] = PyStr(<<"on">>)
    /\ answer = Text(Ok(PyInt(0)), "")
    /\ log.by = "_handlechangedvalue"

\* C13 as claimed: no cycle changes /DeviceInstance, /ProductName, /CustomName,
\* /Serial, /Connected or /UpdateIndex.
C13_MetadataNeverChanged ==
    [][Cycle => \A p \in Metadata : dbusservice'[p] = dbusservice[p]]_vars

\* C13 as amended: whatever its outcome, a cycle leaves /DeviceInstance,
\* /ProductName, /CustomName, /Serial and /Connected at the values __init__ gave
\* them; /UpdateIndex is the one path of __init__ that cycles write.
C13_IdentityNeverChanged ==
    [][Cycle => \A p \in Metadata \ {"/UpdateIndex"} :
                  /\ dbusservice'[p] = dbusservice[p]
                  /\ dbusservice'[p] = InitialStore(config)[p]]_vars

\* a recoverable fault followed a success: the defaults were written over device
\* values and /UpdateIndex is 2, the identity of the service as configured
C13_Witness ==
    /\ cycles = 2 /\ RecoverableFault(log) /\ lastUpdate # 0
    /\ AllDefaults(dbusservice) /\ UpdateIndex = PyInt(2)
    /\ dbusservice["/DeviceInstance"] = PyInt(40)
    /\ dbusservice["/Serial"] = PyStr(<<"0000">>)
    /\ dbusservice["/Connected"] = PyInt(1)

\* C14: _lastUpdate starts at 0; a step changes it only if it is a cycle that ends
\* as a success, which sets it to the clock's reading; and a heartbeat reports it
\* as it is, so what it reports is the time of the last successful cycle.
C14_LastUpdate ==
    /\ lastUpdate = 0
    /\ [][/\ lastUpdate' # lastUpdate => Cycle /\ Succeeded(log')
          /\ Cycle /\ Succeeded(log') => lastUpdate' \in Times
          /\ SignOfLifeTimeout
                => reported'.last = lastUpdate /\ lastUpdate' = lastUpdate]_vars

\* the heartbeat reports the time of the success of the first cycle, after a second
\* cycle that ended in a recoverable fault
C14_Witness ==
    /\ cycles = 2 /\ log.by = "_signOfLife"
    /\ AllDefaults(dbusservice) /\ UpdateIndex = PyInt(2)
    /\ lastUpdate = MaxTime /\ reported.last = MaxTime

\* C15: at most one call of a timer callback is in progress at any time, and the
\* main loop enters a callback only when no call of _update or of _signOfLife is in
\* progress, also when the interval of a timer has passed during a call.
C15_NoOverlap ==
    /\ [](active["_update"] + active["_signOfLife"] <= 1)
    /\ [][\A cb \in Callbacks :
            active'[cb] > active[cb] => \A c \in Callbacks : active[c] = 0]_vars

\* the first call of _update has not returned and the intervals of both timers
\* have passed again
C15_Witness ==
    /\ active["_update"] = 1 /\ elapsed = Callbacks
    /\ cycles = 0 /\ updateTimer.scheduled /\ signOfLifeTimer.scheduled

\* C16: a firing of the heartbeat leaves every path of the store, /UpdateIndex among
\* them, and _lastUpdate as they were, reports _lastUpdate and /Yield/Power as they
\* are, and keeps its own timer and the timer of _update scheduled.
C16_HeartbeatObserves ==
    [][SignOfLifeTimeout
         => /\ dbusservice' = dbusservice
            /\ lastUpdate' = lastUpdate
            /\ reported' = Report(lastUpdate, dbusservice["/Yield/Power"])
            /\ signOfLifeTimer'.scheduled
            /\ updateTimer' = updateTimer]_vars

\* the heartbeat fired after snapshot A was published: it reports 200 W
C16_Witness ==
    /\ log.by = "_signOfLife" /\ signOfLifeTimer.scheduled
    /\ cycles = 1 /\ lastUpdate # 0 /\ UpdateIndex = PyInt(1)
    /\ reported = Report(lastUpdate, PyFloat(200, 1))
    /\ dbusservice["/Yield/Power"] = PyFloat(200, 1)

\* the type family of a value: numbers, the two truth values, or another
Family(v) ==
    IF v.t \in {"int", "float"} THEN "numeric"
    ELSE IF v.t = "bool" THEN "boolean" ELSE v.t

\* C17: the nine published paths and /UpdateIndex are in the store before the first
\* cycle, and every value a cycle writes to one of them is of the type family of the
\* value the path was registered with: numeric, and boolean for /Load/State.
C17_TypeFamilies ==
    /\ \A p \in Published \cup {"/UpdateIndex"} : p \in DOMAIN dbusservice
    /\ [][Cycle => \A p \in Published \cup {"/UpdateIndex"} :
                     dbusservice'[p] # dbusservice[p]
                     => /\ Family(dbusservice'[p]) = Family(InitialStore(config)[p])
                        /\ Family(dbusservice'[p])
                              = IF p = "/Load/State" THEN "boolean" ELSE "numeric"]_vars

\* C18: in a cycle that ends as a success or as a recoverable fault, the writes of
\* _update, made in order, give the store the cycle leaves; the last of them, and
\* no other, is the write of the incremented /UpdateIndex; and when it is made the
\* nine published paths hold the values the cycle leaves them with.
C18_UpdateIndexLast ==
    [][Cycle /\ (Succeeded(log') \/ RecoverableFault(log'))
         => \E w \in {Writes(dbusservice, config, fetched')} :
              /\ ApplyWrites(dbusservice, w) = dbusservice'
              /\ w # <<>>
              /\ \A k \in 1..Len(w) : w[k].path = "/UpdateIndex" <=> k = Len(w)
              /\ w[Len(w)].val = UpdateIndex'
              /\ \A p \in Published :
                    ApplyWrites(dbusservice, SubSeq(w, 1, Len(w) - 1))[p] = dbusservice'[p]]_vars

\* a recoverable fault followed a success: the defaults replaced the device's values
\* and /UpdateIndex went from 1 to 2
C18_Witness ==
    /\ cycles = 2 /\ RecoverableFault(log) /\ fetched.net = "requests.ReadTimeout"
    /\ lastUpdate # 0 /\ AllDefaults(dbusservice) /\ UpdateIndex = PyInt(2)
    /\ Len(Writes(dbusservice, config, fetched)) = Len(ExceptOrder) + 1

\* C19: once the service runs, /Connected is 1 in every state, whatever the cycles
\* ended as and however many recoverable faults followed one another.
C19_Connected ==
    mainloop = "running" => dbusservice["/Connected"] = PyInt(1)

\* 256 fetches in a row were refused, /UpdateIndex is back at 0
C19_Witness ==
    /\ config = WarmConfig /\ cycles = 2 /\ lastUpdate = 0
    /\ RecoverableFault(log) /\ FetchFailed(fetched)
    /\ UpdateIndex = PyInt(0) /\ AllDefaults(dbusservice)
    /\ dbusservice["/Connected"] = PyInt(1)

====
